---- MODULE Spec2Model ----
(***************************************************************************)
(* Model of xla::RefinePolymorphicShapes, CheckShapeAssertionsPass and     *)
(* xla::ValidateStaticShapes                                               *)
(* (tensorflow/compiler/xla/python/refine_polymorphic_shapes.cc).          *)
(*                                                                         *)
(* A module is a flat sequence of operations in walk order.  Every         *)
(* operation carries the index of the top-level func.func it is nested in  *)
(* (parent = 0: the operation sits in the module body, outside every       *)
(* function).  Operations nested in regions of a function are part of that *)
(* function's walk, so they appear in the same sequence.                   *)
(***************************************************************************)
EXTENDS Integers, Sequences, FiniteSets, TLC

(***************************************************************************)
(* Bounds of the model                                                     *)
(***************************************************************************)
MaxOps == 2

MaxFuncs == 2

(***************************************************************************)
(* Program constants                                                       *)
(***************************************************************************)
shapeAssertionName == "shape_assertion"

maxErrorMessageInputs == 4

(* the largest value of the int that std::stoi returns *)
INT_MAX == 2147483647

(***************************************************************************)
(* Small helpers                                                           *)
(***************************************************************************)
Range(s) == {s[i] : i \in 1..Len(s)}

Last(s) == s[Len(s)]

Digits == {"0", "1", "2", "3", "4", "5", "6", "7", "8", "9"}

DigitVal(c) ==
  CASE c = "0" -> 0 [] c = "1" -> 1 [] c = "2" -> 2 [] c = "3" -> 3
    [] c = "4" -> 4 [] c = "5" -> 5 [] c = "6" -> 6 [] c = "7" -> 7
    [] c = "8" -> 8 [] c = "9" -> 9

DigitChar(d) == <<"0", "1", "2", "3", "4", "5", "6", "7", "8", "9">>[d + 1]

(* decimal rendering of an integer, as a sequence of characters *)
RECURSIVE Dec(_)
Dec(n) == IF n < 0 THEN <<"-">> \o Dec(0 - n)
          ELSE IF n < 10 THEN <<DigitChar(n)>>
          ELSE Dec(n \div 10) \o <<DigitChar(n % 10)>>

(***************************************************************************)
(* std::stoi on the text starting at position p: the leading digit run,    *)
(* base 10.  The result is an int; a digit run whose value does not fit    *)
(* makes std::stoi throw std::out_of_range, which is the result -1 here.   *)
(***************************************************************************)
RECURSIVE Stoi(_, _, _)
Stoi(s, p, acc) ==
  IF p > Len(s) \/ s[p] \notin Digits THEN acc
  ELSE IF acc > (INT_MAX - DigitVal(s[p])) \div 10 THEN -1
  ELSE Stoi(s, p + 1, acc * 10 + DigitVal(s[p]))

(***************************************************************************)
(* llvm::Regex("{([0-9]+)[,:}]").match: the leftmost match.  A match       *)
(* starts at a "{" that is followed by a non-empty digit run and then one  *)
(* of "," ":" "}".  The match ends at that character.                      *)
(***************************************************************************)
RECURSIVE DigitRunEnd(_, _)
DigitRunEnd(s, p) ==
  IF p <= Len(s) /\ s[p] \in Digits THEN DigitRunEnd(s, p + 1) ELSE p

MatchAt(s, p) ==
  /\ s[p] = "{"
  /\ LET q == DigitRunEnd(s, p + 1)
     IN  q > p + 1 /\ q <= Len(s) /\ s[q] \in {",", ":", "}"}

RECURSIVE FirstMatchFrom(_, _)
FirstMatchFrom(s, p) ==
  IF p > Len(s) THEN 0
  ELSE IF MatchAt(s, p) THEN p
  ELSE FirstMatchFrom(s, p + 1)

formatSpecifierRE_match(s) ==
  LET p == FirstMatchFrom(s, 1)
  IN  IF p = 0 THEN [found |-> FALSE, start |-> 0, end |-> 0]
      ELSE [found |-> TRUE, start |-> p, end |-> DigitRunEnd(s, p + 1)]

(* faulty variant: the substitution leaves the text as it is *)
formatSpecifierRE_sub_keeps(s) == s

(* llvm::Regex::sub("", s): the first match is replaced by the empty string *)
formatSpecifierRE_sub(s) ==
  LET m == formatSpecifierRE_match(s)
  IN  IF ~m.found THEN s
      ELSE SubSeq(s, 1, m.start - 1) \o SubSeq(s, m.end + 1, Len(s))

(***************************************************************************)
(* The do/while loop at the end of verifyShapeAssertion: every format      *)
(* specifier found must have an index below nrErrorMessageInputs; a valid  *)
(* one is removed from the working copy and the scan restarts.             *)
(* FormatSpecifierIteration is one pass through the loop body:             *)
(*   "break"   no specifier is left, the loop ends and the marker passes   *)
(*   "reject"  the index is out of range, verifyShapeAssertion fails       *)
(*   "throw"   std::stoi throws, nothing is returned                       *)
(*   "strip"   the specifier is removed, the loop goes round again         *)
(***************************************************************************)
FormatSpecifierIteration(errorMessage, nrErrorMessageInputs) ==
  LET m == formatSpecifierRE_match(errorMessage)
  IN  IF ~m.found
      THEN [kind |-> "break", index |-> 0, errorMessage |-> errorMessage]
      ELSE LET index == Stoi(errorMessage, m.start + 1, 0)
           IN  IF index = -1
               THEN [kind |-> "throw", index |-> 0, errorMessage |-> errorMessage]
               ELSE IF ~(0 <= index /\ index < nrErrorMessageInputs)
               THEN [kind |-> "reject", index |-> index,
                     errorMessage |-> errorMessage]
               ELSE [kind |-> "strip", index |-> index,
                     errorMessage |-> formatSpecifierRE_sub(errorMessage)]

(* the whole loop: ok when it breaks, otherwise the offending index *)
RECURSIVE CheckFormatSpecifiers(_, _)
CheckFormatSpecifiers(errorMessage, nrErrorMessageInputs) ==
  LET it == FormatSpecifierIteration(errorMessage, nrErrorMessageInputs)
  IN  IF it.kind = "strip"
      THEN CheckFormatSpecifiers(it.errorMessage, nrErrorMessageInputs)
      ELSE [ok |-> it.kind = "break", index |-> it.index,
            threw |-> it.kind = "throw"]

(***************************************************************************)
(* Operations.  An operand is [type, const, val]: type is "i1", "i32" or   *)
(* "i64" for a ranked rank-0 signless-integer tensor of that width and     *)
(* "other" for every other type; const says whether mlir::hlo::matchInts   *)
(* resolves the operand to a constant, val is that constant.               *)
(***************************************************************************)
Operand(type, const, val) == [type |-> type, const |-> const, val |-> val]

T == Operand("i1", TRUE, 1)

F == Operand("i1", TRUE, 0)

DynPred == Operand("i1", FALSE, 0)

Tplain == <<"a">>

T0 == <<"a", "{", "0", "}">>

T10 == <<"{", "1", "}", "{", "0", "}">>

TemplateSet == {Tplain, T0, T10}

Shape(name, target, operands, numResults, dynResults, dynRegionArgs, unsupportedAttr, backendConfigEmpty, hasSideEffect, hasErrorMessage, errorMessage) ==
  [name |-> name, callTarget |-> target, operands |-> operands,
   numResults |-> numResults, dynResults |-> dynResults,
   dynRegionArgs |-> dynRegionArgs, unsupportedAttr |-> unsupportedAttr,
   backendConfigEmpty |-> backendConfigEmpty, hasSideEffect |-> hasSideEffect,
   hasErrorMessage |-> hasErrorMessage, errorMessage |-> errorMessage]

OtherOp(numResults, dynResults, dynRegionArgs) ==
  Shape("other", "", <<>>, numResults, dynResults, dynRegionArgs,
        FALSE, TRUE, FALSE, FALSE, <<>>)

Marker(operands, errorMessage) ==
  Shape("stablehlo.custom_call", shapeAssertionName, operands, 0, FALSE, FALSE,
        FALSE, TRUE, TRUE, TRUE, errorMessage)

(* the operations that make up the modules of several operations *)
OpSmall ==
  { OtherOp(1, FALSE, FALSE),
    OtherOp(1, TRUE, FALSE),
    OtherOp(0, FALSE, TRUE),
    Shape("stablehlo.custom_call", "other_target", <<T>>, 1, FALSE, FALSE,
          FALSE, TRUE, FALSE, FALSE, <<>>),
    Marker(<<T>>, Tplain),
    Marker(<<F, Operand("i32", TRUE, 3)>>, T0),
    [Marker(<<T>>, Tplain) EXCEPT !.hasSideEffect = FALSE],
    Marker(<<DynPred>>, Tplain) }

(* the operand lists of the markers that are checked one at a time *)
OperandLists ==
  { <<>> }
  \cup { <<p>> : p \in {T, F, DynPred, Operand("i32", TRUE, 1),
                        Operand("other", FALSE, 0)} }
  \cup { <<p, q>> : p \in {T, F, DynPred, Operand("i32", TRUE, 0)},
                    q \in {Operand("i32", TRUE, 3), Operand("i64", FALSE, 0),
                           Operand("i1", TRUE, 1)} }
  \cup { <<F, q, r>> : q \in {Operand("i32", TRUE, 3), Operand("i32", FALSE, 0)},
                       r \in {Operand("i64", TRUE, 12), Operand("i64", FALSE, 0),
                              Operand("other", TRUE, 7)} }
  \cup { <<F, Operand("i32", TRUE, 1), Operand("i32", TRUE, 2),
           Operand("i64", TRUE, 3), Operand("i64", TRUE, 4)>> }
  \cup { <<p, Operand("i32", TRUE, 1), Operand("i32", TRUE, 2),
           Operand("i32", TRUE, 3), Operand("i32", TRUE, 4),
           Operand("i32", TRUE, 5)>> : p \in {F, DynPred} }

OpFull ==
  { Shape("stablehlo.custom_call", shapeAssertionName, operands, nr, dr, FALSE,
          ua, bc, se, em # <<"-">>, IF em = <<"-">> THEN <<>> ELSE em) :
      operands \in OperandLists,
      nr \in {0, 1}, dr \in BOOLEAN, ua \in BOOLEAN, bc \in BOOLEAN,
      se \in BOOLEAN, em \in TemplateSet \cup {<<"-">>} }

IsMarker(op) ==
  op.name = "stablehlo.custom_call" /\ op.callTarget = shapeAssertionName

hasDynamicShape(op) == op.dynResults \/ op.dynRegionArgs

(***************************************************************************)
(* llvm::formatv, as formatErrorMessage uses it on int64_t arguments.      *)
(* Text outside braces is copied and a run of k > 1 opening braces yields  *)
(* k \div 2 literal braces.  "{" spec "}" is a replacement:                *)
(* spec = index [ "," width ] [ ":" style ].  The index is read by         *)
(* consumeInteger with radix 0, so a run that starts with "0" is read as   *)
(* octal.  The argument is rendered in decimal, or in hexadecimal with the *)
(* prefix "0x" for the style "x", and padded on the left with spaces up to *)
(* the width.  The outcome of the branches guarded by assert(false) is     *)
(* that of a build without assertions: a spec that starts with no integer  *)
(* yields nothing, an unterminated brace ends the output with the rest of  *)
(* the text, characters left over after the index are ignored.  A          *)
(* replacement whose index is not below the number of arguments yields the *)
(* text of the spec.                                                       *)
(***************************************************************************)
RECURSIVE FindChar(_, _, _)
FindChar(s, c, p) ==
  IF p > Len(s) THEN 0 ELSE IF s[p] = c THEN p ELSE FindChar(s, c, p + 1)

RECURSIVE CountBraces(_, _)
CountBraces(s, p) ==
  IF p <= Len(s) /\ s[p] = "{" THEN 1 + CountBraces(s, p + 1) ELSE 0

(* the digits of the given radix from position p on; a value that does not *)
(* fit the integers of the model stays at INT_MAX (size_t holds it)        *)
RECURSIVE ParseRadix(_, _, _, _)
ParseRadix(s, p, radix, acc) ==
  IF p > Len(s) \/ s[p] \notin Digits \/ DigitVal(s[p]) >= radix THEN acc
  ELSE IF acc > (INT_MAX - DigitVal(s[p])) \div radix
  THEN ParseRadix(s, p + 1, radix, INT_MAX)
  ELSE ParseRadix(s, p + 1, radix, acc * radix + DigitVal(s[p]))

RECURSIVE RadixRunEnd(_, _, _)
RadixRunEnd(s, p, radix) ==
  IF p <= Len(s) /\ s[p] \in Digits /\ DigitVal(s[p]) < radix
  THEN RadixRunEnd(s, p + 1, radix) ELSE p

(* StringRef::consumeInteger(0, _) at position p: the radix, where the digits *)
(* start and where they end; nothing is consumed when there is no digit       *)
consumeInteger(s, p) ==
  LET octal == p + 1 <= Len(s) /\ s[p] = "0" /\ s[p + 1] \in Digits
      radix == IF octal THEN 8 ELSE 10
      from == IF octal THEN p + 1 ELSE p
      to == RadixRunEnd(s, from, radix)
  IN  [failed |-> to = from, value |-> ParseRadix(s, from, radix, 0), end |-> to]

(* faulty variant: every replacement takes the first argument *)
ReplacementIndex_first(spec) == IF consumeInteger(spec, 1).failed THEN -1 ELSE 0

(* the index of a replacement spec, or -1 when the spec starts with no integer *)
ReplacementIndex(spec) ==
  IF consumeInteger(spec, 1).failed THEN -1 ELSE consumeInteger(spec, 1).value

(* parseReplacementItem: index, width of the layout part, style *)
parseReplacementItem(Spec) ==
  LET idx == consumeInteger(Spec, 1)
      hasLayout == idx.end <= Len(Spec) /\ Spec[idx.end] = ","
      width == consumeInteger(Spec, idx.end + 1)
      afterLayout == IF hasLayout THEN width.end ELSE idx.end
      hasOptions == afterLayout <= Len(Spec) /\ Spec[afterLayout] = ":"
  IN  [Empty |-> idx.failed,
       Index |-> ReplacementIndex(Spec),
       Align |-> IF hasLayout /\ ~width.failed THEN width.value ELSE 0,
       Options |-> IF hasOptions THEN SubSeq(Spec, afterLayout + 1, Len(Spec))
                   ELSE <<>>]

HexChar(d) == <<"0", "1", "2", "3", "4", "5", "6", "7", "8", "9", "a", "b", "c", "d", "e", "f">>[d + 1]

RECURSIVE HexDigits(_)
HexDigits(n) == IF n < 16 THEN <<HexChar(n)>>
                ELSE HexDigits(n \div 16) \o <<HexChar(n % 16)>>

(* write_hex takes the value as uint64_t: a negative value shows as its    *)
(* sixteen digit two's complement                                          *)
Hex(V) ==
  IF V >= 0 THEN HexDigits(V)
  ELSE [i \in 1..8 |-> "f"]
       \o [i \in 1..8 |-> HexChar(15 - (((0 - V - 1) \div 16^(8 - i)) % 16))]

(* format_provider of the integral types: the style picks the rendering *)
formatInteger(V, Style) ==
  IF Style # <<>> /\ Style[1] = "x" THEN <<"0", "x">> \o Hex(V) ELSE Dec(V)

(* FmtAlign with the default alignment (right) and fill (space) *)
FmtAlign(text, Amount) ==
  IF Amount <= Len(text) THEN text
  ELSE [i \in 1..(Amount - Len(text)) |-> " "] \o text

Braces(n) == [i \in 1..n |-> "{"]

RECURSIVE formatv(_, _)
formatv(Fmt, args) ==
  IF Fmt = <<>> THEN <<>>
  ELSE IF Fmt[1] # "{"
  THEN LET BO == FindChar(Fmt, "{", 1)
       IN  IF BO = 0 THEN Fmt
           ELSE SubSeq(Fmt, 1, BO - 1) \o formatv(SubSeq(Fmt, BO, Len(Fmt)), args)
  ELSE LET nb == CountBraces(Fmt, 1)
           BC == FindChar(Fmt, "}", 1)
           BO2 == FindChar(Fmt, "{", 2)
       IN  IF nb > 1
           THEN Braces(nb \div 2)
                \o formatv(SubSeq(Fmt, 2 * (nb \div 2) + 1, Len(Fmt)), args)
           ELSE IF BC = 0 THEN Fmt
           ELSE IF BO2 # 0 /\ BO2 < BC
           THEN SubSeq(Fmt, 1, BO2 - 1) \o formatv(SubSeq(Fmt, BO2, Len(Fmt)), args)
           ELSE LET Spec == SubSeq(Fmt, 2, BC - 1)
                    Right == SubSeq(Fmt, BC + 1, Len(Fmt))
                    R == parseReplacementItem(Spec)
                IN  IF R.Empty THEN formatv(Right, args)
                    ELSE IF R.Index >= Len(args) THEN Spec \o formatv(Right, args)
                    ELSE FmtAlign(formatInteger(args[R.Index + 1], R.Options),
                                  R.Align)
                         \o formatv(Right, args)

(* faulty variant: more than four values are formatted like four or fewer *)
formatErrorMessage_formatsAll(errorMessage, errorMessageInputs) ==
  IF Len(errorMessageInputs) = 0 THEN errorMessage
  ELSE formatv(errorMessage, errorMessageInputs)

formatErrorMessage(errorMessage, errorMessageInputs) ==
  IF Len(errorMessageInputs) = 0 \/ Len(errorMessageInputs) > 4
  THEN errorMessage
  ELSE formatv(errorMessage, errorMessageInputs)

(***************************************************************************)
(* verifyShapeAssertion: the checks in the order of the code.  The result  *)
(* names the check that rejected the marker (rule 0: accepted), the        *)
(* operand the diagnostic names, and the operands whose type was read.     *)
(***************************************************************************)
Reject(rule, arg, reads) ==
  [ok |-> FALSE, rule |-> rule, arg |-> arg, reads |-> reads]

Accept(reads) == [ok |-> TRUE, rule |-> 0, arg |-> 0, reads |-> reads]

(* the loop over input[1:]: the first message input of a wrong type, or 0 *)
RECURSIVE FirstBadInputType(_, _)
FirstBadInputType(operands, i) ==
  IF i + 1 > Len(operands) THEN 0
  ELSE IF operands[i + 1].type \notin {"i32", "i64"} THEN i + 1
  ELSE FirstBadInputType(operands, i + 1)

(* the checks after the operand and result counts *)
verifyAttributesAndTypes(op) ==
  LET nrErrorMessageInputs == Len(op.operands) - 1
      bad == FirstBadInputType(op.operands, 1)
  IN  IF op.unsupportedAttr THEN Reject(3, 0, <<>>)
      ELSE IF ~op.backendConfigEmpty THEN Reject(4, 0, <<>>)
      ELSE IF op.callTarget # shapeAssertionName THEN Reject(5, 0, <<>>)
      ELSE IF ~op.hasSideEffect THEN Reject(6, 0, <<>>)
      ELSE IF op.operands[1].type # "i1" THEN Reject(7, 0, <<0>>)
      ELSE IF bad # 0
      THEN Reject(8, bad, [i \in 1..(bad + 1) |-> i - 1])
      ELSE LET reads == [i \in 1..Len(op.operands) |-> i - 1]
           IN  IF ~op.hasErrorMessage THEN Reject(9, 0, reads)
               ELSE IF ~CheckFormatSpecifiers(op.errorMessage,
                                              nrErrorMessageInputs).ok
               THEN Reject(10, CheckFormatSpecifiers(op.errorMessage,
                                              nrErrorMessageInputs).index, reads)
               ELSE Accept(reads)

(* faulty variant: the result count is checked before the operand count *)
verifyShapeAssertion_resultsFirst(op) ==
  IF op.numResults # 0 THEN Reject(2, 0, <<>>)
  ELSE IF ~(1 <= Len(op.operands)
            /\ Len(op.operands) <= 1 + maxErrorMessageInputs)
  THEN Reject(1, 0, <<>>)
  ELSE verifyAttributesAndTypes(op)

verifyShapeAssertion(op) ==
  IF ~(1 <= Len(op.operands)
       /\ Len(op.operands) <= 1 + maxErrorMessageInputs)
  THEN Reject(1, 0, <<>>)
  ELSE IF op.numResults # 0 THEN Reject(2, 0, <<>>)
  ELSE verifyAttributesAndTypes(op)

(***************************************************************************)
(* State                                                                   *)
(*   entry       "Refine": RefinePolymorphicShapes(module, enable);       *)
(*               "Audit": ValidateStaticShapes(module) called on its own   *)
(*   ops         the operations of the module, in walk order               *)
(*   nfuncs      the number of top-level functions of the module           *)
(*   input       the operations of the module as the caller passed it      *)
(*   pc, fi      the step the pipeline is at, the function the nested      *)
(*               passes are running on                                     *)
(*   todo        the operations the walk of runOnOperation has yet to visit*)
(*   passFailed  signalPassFailure() was called in the running pass        *)
(*   diags       the diagnostics emitted, in order                         *)
(*   log         what was executed, in order                               *)
(*   status      the absl::Status returned by RefinePolymorphicShapes on a *)
(*               module, or by ValidateStaticShapes called on its own      *)
(* The entry point that takes the text of a module                         *)
(* (entry = "RefineText") adds                                             *)
(*   parses      parseSourceString yields a module                         *)
(*   os          what was written to the output stream                     *)
(*   textStatus  the absl::Status that entry point returned                *)
(* The message functions run on their own (entry = "Message") use          *)
(*   msgTemplate, msgInputs  the error_message attribute and the values of *)
(*               the message inputs                                        *)
(*   workingCopy the local errorMessage of verifyShapeAssertion            *)
(*   phase       "validate" while the loop runs, then how it ended, then   *)
(*               "formatted" once formatErrorMessage returned              *)
(*   strips      the iterations that removed a specifier                   *)
(*   formatted   the value formatErrorMessage returned                     *)
(***************************************************************************)
VARIABLES entry, enable_shape_assertions, moduleVerifies, input, nfuncs, ops,
          pc, fi, todo, passFailed, diags, log, status,
          moduleHasDynamicShapes, moduleHasShapeAssertions,
          parses, os, textStatus,
          msgTemplate, msgInputs, workingCopy, phase, strips, formatted

TextVars == <<parses, os, textStatus>>

MessageVars == <<msgTemplate, msgInputs, workingCopy, phase, strips, formatted>>

vars == <<entry, enable_shape_assertions, moduleVerifies, input, nfuncs, ops,
          pc, fi, todo, passFailed, diags, log, status,
          moduleHasDynamicShapes, moduleHasShapeAssertions,
          TextVars, MessageVars>>

Ev(ev, name, op, arg) == [ev |-> ev, name |-> name, op |-> op, arg |-> arg]

Diag(op, kind, arg, text) == [op |-> op, kind |-> kind, arg |-> arg, text |-> text]

NoStatus == [returned |-> FALSE, ok |-> FALSE, headline |-> "", diags |-> <<>>]

OkStatus == [returned |-> TRUE, ok |-> TRUE, headline |-> "", diags |-> <<>>]

InvalidArgumentError(headline, consumed) ==
  [returned |-> TRUE, ok |-> FALSE, headline |-> headline, diags |-> consumed]

MkOp(shape, id, parent) ==
  [id |-> id, parent |-> parent, name |-> shape.name,
   callTarget |-> shape.callTarget, operands |-> shape.operands,
   numResults |-> shape.numResults, dynResults |-> shape.dynResults,
   dynRegionArgs |-> shape.dynRegionArgs,
   unsupportedAttr |-> shape.unsupportedAttr,
   backendConfigEmpty |-> shape.backendConfigEmpty,
   hasSideEffect |-> shape.hasSideEffect,
   hasErrorMessage |-> shape.hasErrorMessage,
   errorMessage |-> shape.errorMessage]

(* operations are listed function by function, the module body first *)
Grouped(par) == \A i \in DOMAIN par : \A j \in DOMAIN par : i < j => par[i] <= par[j]

(* no message function is run on its own *)
MessageIdle ==
  /\ msgTemplate = <<>>
  /\ msgInputs = <<>>
  /\ workingCopy = <<>>
  /\ phase = "idle"
  /\ strips = 0
  /\ formatted = <<>>

(* nothing was written and nothing returned by the text entry point *)
TextIdle ==
  /\ os = "empty"
  /\ textStatus = NoStatus

InitPipeline ==
  /\ input = ops
  /\ fi = 0
  /\ todo = <<>>
  /\ passFailed = FALSE
  /\ diags = <<>>
  /\ log = <<>>
  /\ status = NoStatus
  /\ moduleHasDynamicShapes = FALSE
  /\ moduleHasShapeAssertions = FALSE
  /\ TextIdle
  /\ MessageIdle

InitCommon ==
  /\ InitPipeline
  /\ parses = TRUE

(* a module of up to MaxOps operations in up to MaxFuncs functions *)
InitModules ==
  /\ nfuncs \in 0..MaxFuncs
  /\ \E n \in 0..MaxOps :
       \E shapes \in [1..n -> OpSmall], par \in [1..n -> 0..nfuncs] :
         /\ Grouped(par)
         /\ ops = [i \in 1..n |-> MkOp(shapes[i], i, par[i])]
  /\ \/ /\ entry = "Refine"
        /\ enable_shape_assertions \in BOOLEAN
        /\ moduleVerifies \in BOOLEAN
        /\ pc = "verify"
     \/ /\ entry = "Audit"
        /\ enable_shape_assertions = TRUE
        /\ moduleVerifies = TRUE
        /\ pc = "audit"
  /\ InitCommon

(* a module of one function that holds one marker of any form *)
InitOneMarker ==
  /\ nfuncs = 1
  /\ \E shape \in OpFull : ops = <<MkOp(shape, 1, 1)>>
  /\ entry = "Refine"
  /\ enable_shape_assertions \in BOOLEAN
  /\ moduleVerifies = TRUE
  /\ pc = "verify"
  /\ InitCommon

Init == InitModules \/ InitOneMarker

(***************************************************************************)
(* RefinePolymorphicShapes(module, enable_shape_assertions)                *)
(***************************************************************************)
ModuleVars == <<entry, enable_shape_assertions, moduleVerifies, input, nfuncs,
                TextVars, MessageVars>>

AuditVars == <<moduleHasDynamicShapes, moduleHasShapeAssertions>>

(* pm.run(module) failed: the diagnostics collected so far are consumed *)
ReturnRefinementFailed(step) ==
  /\ status' = InvalidArgumentError("Module shape refinement failed", diags)
  /\ pc' = "done"
  /\ log' = log \o <<Ev("start", step, 0, fi), Ev("fail", step, 0, fi)>>

(* faulty variant: a module that fails verification is handed to the pass manager *)
VerifyModule_ignored ==
  /\ pc = "verify"
  /\ pc' = "inliner"
  /\ log' = log \o (IF moduleVerifies THEN <<Ev("start", "verify", 0, 0)>>
                    ELSE <<Ev("start", "verify", 0, 0), Ev("fail", "verify", 0, 0)>>)
  /\ UNCHANGED <<ModuleVars, AuditVars, ops, fi, todo, passFailed, diags, status>>

(* mlir::verify(module) *)
VerifyModule ==
  /\ pc = "verify"
  /\ IF moduleVerifies
     THEN /\ pc' = "inliner"
          /\ log' = Append(log, Ev("start", "verify", 0, 0))
          /\ status' = status
     ELSE /\ pc' = "done"
          /\ log' = log \o <<Ev("start", "verify", 0, 0), Ev("fail", "verify", 0, 0)>>
          /\ status' = InvalidArgumentError("Module verification failed", diags)
  /\ UNCHANGED <<ModuleVars, AuditVars, ops, fi, todo, passFailed, diags>>

(* mlir::createInlinerPass() *)
Inliner ==
  /\ pc = "inliner"
  /\ \E ok \in BOOLEAN :
       IF ok THEN /\ pc' = "cse"
                  /\ log' = Append(log, Ev("start", "inliner", 0, 0))
                  /\ status' = status
       ELSE ReturnRefinementFailed("inliner")
  /\ UNCHANGED <<ModuleVars, AuditVars, ops, fi, todo, passFailed, diags>>

(* mlir::createCSEPass() *)
CSE ==
  /\ pc = "cse"
  /\ \E ok \in BOOLEAN :
       IF ok THEN /\ pc' = "refine_shapes"
                  /\ log' = Append(log, Ev("start", "cse", 0, 0))
                  /\ status' = status
       ELSE ReturnRefinementFailed("cse")
  /\ UNCHANGED <<ModuleVars, AuditVars, ops, fi, todo, passFailed, diags>>

(* the passes nested on func.func run function by function; with no        *)
(* function in the module pm.run is over after the module passes           *)
EnterFunctions ==
  IF nfuncs = 0 THEN pc' = "audit" /\ fi' = fi
  ELSE pc' = "canonicalize" /\ fi' = 1

Static(op) == [op EXCEPT !.dynResults = FALSE, !.dynRegionArgs = FALSE]

(* mlir::stablehlo::createStablehloRefineShapesPass(): may turn dynamic    *)
(* shapes into static ones                                                 *)
RefineShapes ==
  /\ pc = "refine_shapes"
  /\ \E ok \in BOOLEAN :
       IF ok
       THEN /\ \E refined \in SUBSET {o.id : o \in {x \in Range(ops) : hasDynamicShape(x)}} :
                 ops' = [i \in 1..Len(ops) |->
                           IF ops[i].id \in refined THEN Static(ops[i]) ELSE ops[i]]
            /\ EnterFunctions
            /\ log' = Append(log, Ev("start", "refine_shapes", 0, 0))
            /\ status' = status
       ELSE /\ ReturnRefinementFailed("refine_shapes")
            /\ UNCHANGED <<ops, fi>>
  /\ UNCHANGED <<ModuleVars, AuditVars, todo, passFailed, diags>>

(* mlir::stablehlo::createStablehloCanonicalizeDynamismPass() on function fi *)
CanonicalizeDynamism ==
  /\ pc = "canonicalize"
  /\ \E ok \in BOOLEAN :
       IF ok THEN /\ pc' = "check_start"
                  /\ log' = Append(log, Ev("start", "canonicalize", 0, fi))
                  /\ status' = status
       ELSE ReturnRefinementFailed("canonicalize")
  /\ UNCHANGED <<ModuleVars, AuditVars, ops, fi, todo, passFailed, diags>>

(***************************************************************************)
(* CheckShapeAssertionsPass::runOnOperation on function fi                 *)
(***************************************************************************)
FuncOps(f) == SelectSeq(ops, LAMBDA o : o.parent = f)

Ids(opseq) == [i \in 1..Len(opseq) |-> opseq[i].id]

OpById(id) == CHOOSE o \in Range(ops) : o.id = id

Erased(id) == SelectSeq(ops, LAMBDA o : o.id # id)

errorMessageInputs(op) == [i \in 1..(Len(op.operands) - 1) |-> op.operands[i + 1].val]

(* func_op.walk(...) starts *)
CheckStart ==
  /\ pc = "check_start"
  /\ pc' = "check"
  /\ todo' = Ids(FuncOps(fi))
  /\ passFailed' = FALSE
  /\ log' = Append(log, Ev("start", "check", 0, fi))
  /\ UNCHANGED <<ModuleVars, AuditVars, ops, fi, diags, status>>

(* faulty variant: every custom call the walk comes to is erased *)
WalkSkip_erases ==
  /\ pc = "check" /\ todo # <<>>
  /\ ~IsMarker(OpById(Head(todo)))
  /\ todo' = Tail(todo)
  /\ ops' = IF OpById(Head(todo)).name = "stablehlo.custom_call"
            THEN SelectSeq(ops, LAMBDA o : o.id # Head(todo)) ELSE ops
  /\ UNCHANGED <<ModuleVars, AuditVars, pc, fi, passFailed, diags, log, status>>

(* the walk is at an operation that is not a stablehlo.custom_call, or at  *)
(* a custom call of another target: line 79                                *)
WalkSkip ==
  /\ pc = "check" /\ todo # <<>>
  /\ ~IsMarker(OpById(Head(todo)))
  /\ todo' = Tail(todo)
  /\ UNCHANGED <<ModuleVars, AuditVars, ops, pc, fi, passFailed, diags, log, status>>

AtMarker == pc = "check" /\ todo # <<>> /\ IsMarker(OpById(Head(todo)))

cur == OpById(Head(todo))

(* what verifyShapeAssertion executed on the marker *)
VerifyEvents(id, v) ==
  [r \in 1..(IF v.ok THEN 10 ELSE v.rule) |-> Ev("rule", "", id, r)]
  \o [i \in 1..Len(v.reads) |-> Ev("readType", "", id, v.reads[i])]

SignalFailure(id) == Ev("fail", "check", id, fi)

(* faulty variant: the marker is verified first also when assertions are disabled *)
EraseDisabled_verifies ==
  /\ AtMarker
  /\ ~enable_shape_assertions
  /\ LET v == verifyShapeAssertion(cur)
     IN  /\ ops' = (IF v.ok THEN Erased(cur.id) ELSE ops)
         /\ log' = log \o <<Ev("visit", "", cur.id, 0)>> \o VerifyEvents(cur.id, v)
                       \o (IF v.ok THEN <<Ev("erase", "", cur.id, 0)>> ELSE <<>>)
  /\ todo' = Tail(todo)
  /\ UNCHANGED <<ModuleVars, AuditVars, pc, fi, passFailed, diags, status>>

(* lines 80-83 *)
EraseDisabled ==
  /\ AtMarker
  /\ ~enable_shape_assertions
  /\ ops' = Erased(cur.id)
  /\ todo' = Tail(todo)
  /\ log' = log \o <<Ev("visit", "", cur.id, 0), Ev("erase", "", cur.id, 0)>>
  /\ UNCHANGED <<ModuleVars, AuditVars, pc, fi, passFailed, diags, status>>

(* std::stoi throws in the specifier loop of verifyShapeAssertion(op): the *)
(* pass does not get to emit a diagnostic, the run ends there              *)
stoiThrows(op) ==
  /\ verifyShapeAssertion(op).rule = 10
  /\ CheckFormatSpecifiers(op.errorMessage, Len(op.operands) - 1).threw

(* faulty variant: the walk is interrupted at the first ill-formed marker *)
RejectIllFormed_interrupts ==
  /\ AtMarker
  /\ enable_shape_assertions
  /\ ~stoiThrows(cur)
  /\ LET v == verifyShapeAssertion(cur)
     IN  /\ ~v.ok
         /\ diags' = Append(diags, Diag(cur.id, "rule", v.rule, <<>>))
         /\ log' = log \o <<Ev("visit", "", cur.id, 0)>> \o VerifyEvents(cur.id, v)
                       \o <<SignalFailure(cur.id)>>
  /\ passFailed' = TRUE
  /\ todo' = <<>>
  /\ UNCHANGED <<ModuleVars, AuditVars, ops, pc, fi, status>>

(* lines 85-88 *)
RejectIllFormed ==
  /\ AtMarker
  /\ enable_shape_assertions
  /\ ~stoiThrows(cur)
  /\ LET v == verifyShapeAssertion(cur)
     IN  /\ ~v.ok
         /\ diags' = Append(diags, Diag(cur.id, "rule", v.rule, <<>>))
         /\ log' = log \o <<Ev("visit", "", cur.id, 0)>> \o VerifyEvents(cur.id, v)
                       \o <<SignalFailure(cur.id)>>
  /\ passFailed' = TRUE
  /\ todo' = Tail(todo)
  /\ UNCHANGED <<ModuleVars, AuditVars, ops, pc, fi, status>>

Verified == AtMarker /\ enable_shape_assertions /\ verifyShapeAssertion(cur).ok

VerifiedEvents ==
  <<Ev("visit", "", cur.id, 0)>> \o VerifyEvents(cur.id, verifyShapeAssertion(cur))
    \o <<Ev("matchInts", "", cur.id, 0)>>

(* faulty variant: a predicate that is no constant counts as satisfied *)
PredicateNotStatic_erases ==
  /\ Verified
  /\ ~cur.operands[1].const
  /\ ops' = Erased(cur.id)
  /\ log' = log \o VerifiedEvents \o <<Ev("erase", "", cur.id, 0)>>
  /\ todo' = Tail(todo)
  /\ UNCHANGED <<ModuleVars, AuditVars, pc, fi, passFailed, diags, status>>

(* lines 89-95 *)
PredicateNotStatic ==
  /\ Verified
  /\ ~cur.operands[1].const
  /\ diags' = Append(diags, Diag(cur.id, "assert_what", 0, <<>>))
  /\ log' = log \o VerifiedEvents \o <<SignalFailure(cur.id)>>
  /\ passFailed' = TRUE
  /\ todo' = Tail(todo)
  /\ UNCHANGED <<ModuleVars, AuditVars, ops, pc, fi, status>>

(* faulty variant: a satisfied assertion is left in the function *)
Discharge_kept ==
  /\ Verified
  /\ cur.operands[1].const /\ cur.operands[1].val # 0
  /\ log' = log \o VerifiedEvents
  /\ todo' = Tail(todo)
  /\ UNCHANGED <<ModuleVars, AuditVars, ops, pc, fi, passFailed, diags, status>>

(* faulty variant: after the erase the callback goes on to report a violation *)
Discharge_fallsThrough ==
  /\ Verified
  /\ cur.operands[1].const /\ cur.operands[1].val # 0
  /\ ops' = Erased(cur.id)
  /\ diags' = Append(diags, Diag(cur.id, "user", 0,
                       formatErrorMessage(cur.errorMessage, errorMessageInputs(cur))))
  /\ log' = log \o VerifiedEvents
                \o <<Ev("erase", "", cur.id, 0), SignalFailure(cur.id)>>
  /\ passFailed' = TRUE
  /\ todo' = Tail(todo)
  /\ UNCHANGED <<ModuleVars, AuditVars, pc, fi, status>>

(* lines 96-99 *)
Discharge ==
  /\ Verified
  /\ cur.operands[1].const /\ cur.operands[1].val # 0
  /\ ops' = Erased(cur.id)
  /\ log' = log \o VerifiedEvents \o <<Ev("erase", "", cur.id, 0)>>
  /\ todo' = Tail(todo)
  /\ UNCHANGED <<ModuleVars, AuditVars, pc, fi, passFailed, diags, status>>

Violated == Verified /\ cur.operands[1].const /\ cur.operands[1].val = 0

(* the loop of lines 102-111: the first message input that is no constant, or 0 *)
RECURSIVE FirstNonConstInput(_, _)
FirstNonConstInput(operands, i) ==
  IF i + 1 > Len(operands) THEN 0
  ELSE IF ~operands[i + 1].const THEN i
  ELSE FirstNonConstInput(operands, i + 1)

MatchEvents(id, upto) == [i \in 1..upto |-> Ev("matchInts", "", id, i)]

(* faulty variant: all message inputs are resolved before the first failure *)
(* is reported                                                              *)
InputNotStatic_resolvesAll ==
  /\ Violated
  /\ LET i == FirstNonConstInput(cur.operands, 1)
     IN  /\ i # 0
         /\ diags' = Append(diags, Diag(cur.id, "error_message_input", i, <<>>))
         /\ log' = log \o VerifiedEvents
                       \o MatchEvents(cur.id, Len(cur.operands) - 1)
                       \o <<SignalFailure(cur.id)>>
  /\ passFailed' = TRUE
  /\ todo' = Tail(todo)
  /\ UNCHANGED <<ModuleVars, AuditVars, ops, pc, fi, status>>

(* lines 102-109 *)
InputNotStatic ==
  /\ Violated
  /\ LET i == FirstNonConstInput(cur.operands, 1)
     IN  /\ i # 0
         /\ diags' = Append(diags, Diag(cur.id, "error_message_input", i, <<>>))
         /\ log' = log \o VerifiedEvents \o MatchEvents(cur.id, i)
                       \o <<SignalFailure(cur.id)>>
  /\ passFailed' = TRUE
  /\ todo' = Tail(todo)
  /\ UNCHANGED <<ModuleVars, AuditVars, ops, pc, fi, status>>

(* faulty variant: the violated marker is erased once its message is emitted *)
ReportViolation_erases ==
  /\ Violated
  /\ FirstNonConstInput(cur.operands, 1) = 0
  /\ diags' = Append(diags, Diag(cur.id, "user", 0,
                       formatErrorMessage(cur.errorMessage, errorMessageInputs(cur))))
  /\ log' = log \o VerifiedEvents \o MatchEvents(cur.id, Len(cur.operands) - 1)
                \o <<Ev("format", "", cur.id, 0), SignalFailure(cur.id),
                     Ev("erase", "", cur.id, 0)>>
  /\ ops' = Erased(cur.id)
  /\ passFailed' = TRUE
  /\ todo' = Tail(todo)
  /\ UNCHANGED <<ModuleVars, AuditVars, pc, fi, status>>

(* lines 100-113 *)
ReportViolation ==
  /\ Violated
  /\ FirstNonConstInput(cur.operands, 1) = 0
  /\ diags' = Append(diags, Diag(cur.id, "user", 0,
                       formatErrorMessage(cur.errorMessage, errorMessageInputs(cur))))
  /\ log' = log \o VerifiedEvents \o MatchEvents(cur.id, Len(cur.operands) - 1)
                \o <<Ev("format", "", cur.id, 0), SignalFailure(cur.id)>>
  /\ passFailed' = TRUE
  /\ todo' = Tail(todo)
  /\ UNCHANGED <<ModuleVars, AuditVars, ops, pc, fi, status>>

(* faulty variant: the result of the pass is not looked at *)
CheckEnd_ignoresFailure ==
  /\ pc = "check" /\ todo = <<>>
  /\ status' = status
  /\ IF fi < nfuncs THEN pc' = "canonicalize" /\ fi' = fi + 1
     ELSE pc' = "audit" /\ fi' = fi
  /\ UNCHANGED <<ModuleVars, AuditVars, ops, todo, passFailed, diags, log>>

(* the walk is over: the pass manager goes on to the next function, or     *)
(* pm.run returns (lines 269-274)                                          *)
CheckEnd ==
  /\ pc = "check" /\ todo = <<>>
  /\ IF passFailed
     THEN /\ status' = InvalidArgumentError("Module shape refinement failed", diags)
          /\ pc' = "done"
          /\ fi' = fi
     ELSE /\ status' = status
          /\ IF fi < nfuncs THEN pc' = "canonicalize" /\ fi' = fi + 1
             ELSE pc' = "audit" /\ fi' = fi
  /\ UNCHANGED <<ModuleVars, AuditVars, ops, todo, passFailed, diags, log>>

(***************************************************************************)
(* ValidateStaticShapes(module)                                            *)
(***************************************************************************)
AuditOp(op) ==
  (IF hasDynamicShape(op) THEN <<Diag(op.id, "has dynamic shapes", 0, <<>>)>>
   ELSE <<>>)
  \o (IF IsMarker(op)
      THEN <<Diag(op.id, "has residual shape assertions", 0, <<>>)>>
      ELSE <<>>)

(* faulty variant: the walk is interrupted at the first operation with a finding *)
RECURSIVE AuditWalk_firstOnly(_)
AuditWalk_firstOnly(opseq) ==
  IF opseq = <<>> THEN <<>>
  ELSE IF AuditOp(Head(opseq)) # <<>> THEN <<Head(AuditOp(Head(opseq)))>>
  ELSE AuditWalk_firstOnly(Tail(opseq))

(* module->walk(...): the diagnostics emitted, in walk order (lines 309-333) *)
RECURSIVE AuditWalk(_)
AuditWalk(opseq) ==
  IF opseq = <<>> THEN <<>>
  ELSE AuditOp(Head(opseq)) \o AuditWalk(Tail(opseq))

(* faulty variant: the residual assertions are reported first *)
AuditStatus_assertionsFirst(hasDynamicShapes, hasShapeAssertions, collected) ==
  IF hasShapeAssertions
  THEN InvalidArgumentError("Module has residual shape assertions", collected)
  ELSE IF hasDynamicShapes
  THEN InvalidArgumentError("Module has dynamic shapes", collected)
  ELSE OkStatus

(* faulty variant: residual assertions do not make the audit fail *)
AuditStatus_dynamicOnly(hasDynamicShapes, hasShapeAssertions, collected) ==
  IF hasDynamicShapes
  THEN InvalidArgumentError("Module has dynamic shapes", collected)
  ELSE OkStatus

(* lines 335-345 *)
AuditStatus(hasDynamicShapes, hasShapeAssertions, collected) ==
  IF hasDynamicShapes
  THEN InvalidArgumentError("Module has dynamic shapes", collected)
  ELSE IF hasShapeAssertions
  THEN InvalidArgumentError("Module has residual shape assertions", collected)
  ELSE OkStatus

ValidateStaticShapes ==
  /\ pc = "audit"
  /\ LET collected == AuditWalk(ops)
         hasDynamicShapes == \E o \in Range(ops) : hasDynamicShape(o)
         hasShapeAssertions == \E o \in Range(ops) : IsMarker(o)
     IN  /\ moduleHasDynamicShapes' = hasDynamicShapes
         /\ moduleHasShapeAssertions' = hasShapeAssertions
         /\ diags' = diags \o collected
         /\ status' = AuditStatus(hasDynamicShapes, hasShapeAssertions, collected)
  /\ log' = Append(log, Ev("start", "audit", 0, 0))
  /\ pc' = "done"
  /\ UNCHANGED <<ModuleVars, ops, fi, todo, passFailed>>

Next ==
  \/ VerifyModule
  \/ Inliner
  \/ CSE
  \/ RefineShapes
  \/ CanonicalizeDynamism
  \/ CheckStart
  \/ WalkSkip
  \/ EraseDisabled
  \/ RejectIllFormed
  \/ PredicateNotStatic
  \/ Discharge
  \/ InputNotStatic
  \/ ReportViolation
  \/ CheckEnd
  \/ ValidateStaticShapes

Spec == Init /\ [][Next]_vars

(***************************************************************************)
(* RefinePolymorphicShapes(module_str, os, enable_shape_assertions): the   *)
(* text is parsed, the module refined by RefinePolymorphicShapes(module,   *)
(* enable), and the refined module written to os as bytecode.              *)
(* mlir::parseSourceString verifies what it parsed, so a module that       *)
(* parses also verifies.                                                   *)
(***************************************************************************)
InternalError(headline) ==
  [returned |-> TRUE, ok |-> FALSE, headline |-> headline, diags |-> <<>>,
   code |-> "INTERNAL"]

(* the operations of the modules given as text *)
OpText == OpSmall \cup {Marker(<<F, Operand("i64", FALSE, 0)>>, Tplain)}

InitText ==
  /\ entry = "RefineText"
  /\ enable_shape_assertions \in BOOLEAN
  /\ parses \in BOOLEAN
  /\ moduleVerifies = TRUE
  /\ nfuncs = 1
  /\ IF parses
     THEN \/ ops = <<>>
          \/ \E shape \in OpText, parent \in 0..1 : ops = <<MkOp(shape, 1, parent)>>
     ELSE ops = <<>>
  /\ pc = "parse"
  /\ InitPipeline

TextUnchanged ==
  UNCHANGED <<entry, enable_shape_assertions, moduleVerifies, input, nfuncs, ops,
              fi, todo, passFailed, diags, status, AuditVars, parses, MessageVars>>

(* lines 290-295 *)
ParseSource ==
  /\ entry = "RefineText"
  /\ pc = "parse"
  /\ IF parses
     THEN /\ pc' = "verify"
          /\ textStatus' = textStatus
          /\ log' = Append(log, Ev("start", "parse", 0, 0))
     ELSE /\ pc' = "returned"
          /\ textStatus' = InvalidArgumentError("Cannot parse module.", <<>>)
          /\ log' = log \o <<Ev("start", "parse", 0, 0), Ev("fail", "parse", 0, 0)>>
  /\ os' = os
  /\ TextUnchanged

(* faulty variant: the module is written also when its refinement failed *)
ReturnIfError_writes ==
  /\ entry = "RefineText"
  /\ pc = "done"
  /\ ~status.ok
  /\ textStatus' = status
  /\ pc' = "returned"
  /\ os' = "bytecode"
  /\ log' = Append(log, Ev("start", "serialize", 0, 0))
  /\ TextUnchanged

(* TF_RETURN_IF_ERROR at line 296: the status of the refinement is returned *)
ReturnIfError ==
  /\ entry = "RefineText"
  /\ pc = "done"
  /\ ~status.ok
  /\ textStatus' = status
  /\ pc' = "returned"
  /\ os' = os
  /\ log' = log
  /\ TextUnchanged

(* lines 297-301: a failed writeBytecodeToFile may have written a part *)
WriteBytecode ==
  /\ entry = "RefineText"
  /\ pc = "done"
  /\ status.ok
  /\ \/ /\ os' = "bytecode"
        /\ textStatus' = OkStatus
        /\ log' = Append(log, Ev("start", "serialize", 0, 0))
     \/ /\ os' \in {"empty", "partial"}
        /\ textStatus' = InternalError("Cannot serialize module.")
        /\ log' = log \o <<Ev("start", "serialize", 0, 0),
                           Ev("fail", "serialize", 0, 0)>>
  /\ pc' = "returned"
  /\ TextUnchanged

NextText ==
  \/ ParseSource
  \/ Next
  \/ ReturnIfError
  \/ WriteBytecode

SpecText == InitText /\ [][NextText]_vars

(***************************************************************************)
(* The message functions on their own: the specifier loop of               *)
(* verifyShapeAssertion run on an error_message and a number of message    *)
(* inputs, one action for each way through the loop body, and then         *)
(* formatErrorMessage on the same message and the values of the inputs.    *)
(* A marker has at most maxErrorMessageInputs message inputs when the loop *)
(* runs; formatErrorMessage is also applied to one value more, without the *)
(* loop.  The messages are built from up to MaxTokens pieces.              *)
(***************************************************************************)
MaxTokens == 4

Tokens ==
  << <<"a">>, <<"{">>, <<"}">>, <<"0">>, <<"1">>,
     <<"{", "0", ":", "x", "}">>,
     <<"{", "0", ",", "3", "}">>,
     <<"{", "2", "1", "4", "7", "4", "8", "3", "6", "4", "8", "}">> >>

RECURSIVE Concat(_)
Concat(ss) == IF ss = <<>> THEN <<>> ELSE Head(ss) \o Concat(Tail(ss))

(* "bad value {0}, expected {1}" *)
TExample ==
  <<"b", "a", "d", " ", "v", "a", "l", "u", "e", " ", "{", "0", "}", ",", " ",
    "e", "x", "p", "e", "c", "t", "e", "d", " ", "{", "1", "}">>

Templates ==
  {TExample}
  \cup UNION { { Concat([i \in 1..n |-> Tokens[t[i]]]) :
                   t \in [1..n -> 1..Len(Tokens)] } : n \in 0..MaxTokens }

InputValues == <<3, 7, -12, 255, 9>>

InitMessage ==
  /\ entry = "Message"
  /\ msgTemplate \in Templates
  /\ \E n \in 0..(maxErrorMessageInputs + 1) :
       /\ msgInputs = SubSeq(InputValues, 1, n)
       /\ phase = IF n <= maxErrorMessageInputs THEN "validate" ELSE "direct"
  /\ workingCopy = msgTemplate
  /\ strips = 0
  /\ formatted = <<>>
  /\ enable_shape_assertions = TRUE
  /\ moduleVerifies = TRUE
  /\ parses = TRUE
  /\ nfuncs = 0
  /\ ops = <<>>
  /\ pc = "done"
  /\ input = ops
  /\ fi = 0
  /\ todo = <<>>
  /\ passFailed = FALSE
  /\ diags = <<>>
  /\ log = <<>>
  /\ status = NoStatus
  /\ moduleHasDynamicShapes = FALSE
  /\ moduleHasShapeAssertions = FALSE
  /\ TextIdle

PipelineVars ==
  <<entry, enable_shape_assertions, moduleVerifies, input, nfuncs, ops, pc, fi,
    todo, passFailed, diags, log, status, AuditVars, TextVars>>

Iteration == FormatSpecifierIteration(workingCopy, Len(msgInputs))

(* formatSpecifierRE.match finds nothing: break *)
ScanBreak ==
  /\ phase = "validate"
  /\ Iteration.kind = "break"
  /\ phase' = "accepted"
  /\ UNCHANGED <<PipelineVars, msgTemplate, msgInputs, workingCopy, strips, formatted>>

(* the index is not below nrErrorMessageInputs: return op.emitError() *)
ScanReject ==
  /\ phase = "validate"
  /\ Iteration.kind = "reject"
  /\ phase' = "rejected"
  /\ UNCHANGED <<PipelineVars, msgTemplate, msgInputs, workingCopy, strips, formatted>>

(* std::stoi throws std::out_of_range: verifyShapeAssertion returns nothing *)
ScanThrow ==
  /\ phase = "validate"
  /\ Iteration.kind = "throw"
  /\ phase' = "threw"
  /\ UNCHANGED <<PipelineVars, msgTemplate, msgInputs, workingCopy, strips, formatted>>

(* the specifier is valid: it is removed and the loop goes round again *)
ScanStrip ==
  /\ phase = "validate"
  /\ Iteration.kind = "strip"
  /\ workingCopy' = Iteration.errorMessage
  /\ strips' = strips + 1
  /\ UNCHANGED <<PipelineVars, msgTemplate, msgInputs, phase, formatted>>

(* formatErrorMessage(op, errorMessageInputs) *)
Format ==
  /\ phase \in {"accepted", "direct"}
  /\ formatted' = formatErrorMessage(msgTemplate, msgInputs)
  /\ phase' = "formatted"
  /\ UNCHANGED <<PipelineVars, msgTemplate, msgInputs, workingCopy, strips>>

NextMessage ==
  \/ ScanBreak
  \/ ScanReject
  \/ ScanThrow
  \/ ScanStrip
  \/ Format

SpecMessage == InitMessage /\ [][NextMessage]_vars

(***************************************************************************)
(* Vocabulary of the properties                                            *)
(***************************************************************************)
LogIdx == 1..Len(log)

Started(name, f) == \E i \in LogIdx : log[i] = Ev("start", name, 0, f)

StartedSteps == SelectSeq(log, LAMBDA e : e.ev = "start")

Visited(id) == \E i \in LogIdx : log[i].ev = "visit" /\ log[i].op = id

EventsOf(id, kinds) == SelectSeq(log, LAMBDA e : e.op = id /\ e.ev \in kinds)

DiagsOf(id) == SelectSeq(diags, LAMBDA d : d.op = id)

Present(id) == \E o \in Range(ops) : o.id = id

InputMarkers == {m \in Range(input) : IsMarker(m)}

(* the walk of the discharge pass over function f is over *)
WalkFinished(f) ==
  /\ Started("check", f)
  /\ ~(pc = "check" /\ fi = f /\ todo # <<>>)

(* signalPassFailure() was called while the pass ran on function f *)
MarkedFailed(f) ==
  \E i \in LogIdx : log[i].ev = "fail" /\ log[i].name = "check" /\ log[i].arg = f

(* the order of the steps for a module of nf functions *)
RECURSIVE NestedSteps(_, _)
NestedSteps(f, nf) ==
  IF f > nf THEN <<>>
  ELSE <<Ev("start", "canonicalize", 0, f), Ev("start", "check", 0, f)>>
       \o NestedSteps(f + 1, nf)

StepOrder(nf) ==
  <<Ev("start", "verify", 0, 0), Ev("start", "inliner", 0, 0),
    Ev("start", "cse", 0, 0), Ev("start", "refine_shapes", 0, 0)>>
  \o NestedSteps(1, nf) \o <<Ev("start", "audit", 0, 0)>>

IsPrefix(s, t) == Len(s) <= Len(t) /\ s = SubSeq(t, 1, Len(s))

(* the rules of the well-formedness contract of a marker, by number *)
RuleViolated(m, r) ==
  CASE r = 1 -> ~(Len(m.operands) \in 1..5)
    [] r = 2 -> m.numResults # 0
    [] r = 3 -> m.unsupportedAttr
    [] r = 4 -> ~m.backendConfigEmpty
    [] r = 5 -> m.callTarget # "shape_assertion"
    [] r = 6 -> ~m.hasSideEffect
    [] r = 7 -> Len(m.operands) = 0 \/ m.operands[1].type # "i1"
    [] r = 8 -> \E i \in 2..Len(m.operands) : m.operands[i].type \notin {"i32", "i64"}
    [] r = 9 -> ~m.hasErrorMessage
    [] r = 10 -> m.hasErrorMessage
                 /\ ~CheckFormatSpecifiers(m.errorMessage, Len(m.operands) - 1).ok

ViolatedRules(m) == {r \in 1..10 : RuleViolated(m, r)}

WellFormed(m) == ViolatedRules(m) = {}

MinOf(S) == CHOOSE x \in S : \A y \in S : x <= y

PredicateIs(m, b) ==
  /\ m.operands[1].const
  /\ (m.operands[1].val # 0) = b

AllInputsConstant(m) == \A i \in 2..Len(m.operands) : m.operands[i].const

(***************************************************************************)
(* C1: Refine runs structural verification, inlining, CSE, shape           *)
(* refinement, then per function dynamism canonicalization and assertion   *)
(* discharge, then the audit, in this order; once a step has failed no     *)
(* step is started any more, Refine returns a failure, and a module that   *)
(* fails verification is left as it was, with no pass run on it.           *)
(***************************************************************************)
C1_OrderAndShortCircuit ==
  entry = "Refine" =>
    /\ IsPrefix(StartedSteps, StepOrder(nfuncs))
    /\ \A i \in LogIdx : \A j \in LogIdx :
         (i < j /\ log[i].ev = "fail") => log[j].ev # "start"
    /\ (pc = "done" /\ \E i \in LogIdx : log[i].ev = "fail") =>
         /\ status.returned /\ ~status.ok
         /\ ~Started("audit", 0)
    /\ (\E i \in LogIdx : log[i].ev = "fail") => pc \in {"check", "done"}
    /\ (~moduleVerifies /\ pc = "done") =>
         /\ StartedSteps = <<Ev("start", "verify", 0, 0)>>
         /\ status.headline = "Module verification failed"
         /\ ops = input

C1_Witness ==
  /\ entry = "Refine" /\ pc = "done" /\ nfuncs = 2
  /\ Last(log).ev = "fail" /\ Last(log).name = "check" /\ Last(log).arg = 1
  /\ ~status.ok

(***************************************************************************)
(* C2: when the discharge pass has finished its walk of a function and was *)
(* not marked as failed, no marker is left in that function, whether       *)
(* assertions are enabled or not.                                          *)
(***************************************************************************)
C2_NoMarkerLeftOnSuccess ==
  \A f \in 1..nfuncs :
    (WalkFinished(f) /\ ~MarkedFailed(f) /\ ~(fi = f /\ passFailed)) =>
      \A o \in Range(ops) : o.parent = f => ~IsMarker(o)

C2_Witness ==
  /\ pc = "check" /\ todo = <<>> /\ ~passFailed /\ enable_shape_assertions
  /\ Cardinality({m \in InputMarkers : m.parent = fi}) = 2

(***************************************************************************)
(* C3: with assertions disabled every marker the pass visits is erased,    *)
(* ill-formed or not and whatever its predicate; no rule of the            *)
(* well-formedness check is evaluated, no operand is read or resolved, no  *)
(* message is formatted, and the pass is not marked as failed.             *)
(***************************************************************************)
C3_DisabledErasesAll ==
  ~enable_shape_assertions =>
    /\ \A i \in LogIdx : log[i].ev \notin {"rule", "readType", "matchInts", "format"}
    /\ \A m \in InputMarkers : Visited(m.id) => ~Present(m.id) /\ DiagsOf(m.id) = <<>>
    /\ \A f \in 1..nfuncs :
         WalkFinished(f) =>
           /\ ~MarkedFailed(f)
           /\ \A m \in InputMarkers : m.parent = f => Visited(m.id)
    /\ ~passFailed

C3_Witness ==
  /\ ~enable_shape_assertions /\ pc = "check" /\ todo = <<>>
  /\ \E m \in InputMarkers :
       /\ m.parent = fi /\ ~WellFormed(m) /\ Len(m.operands) > 0
       /\ PredicateIs(m, FALSE) /\ Visited(m.id) /\ ~Present(m.id)

(***************************************************************************)
(* C4 (as claimed): with assertions enabled, once a marker of a function   *)
(* has failed the well-formedness check, no marker is visited, checked,    *)
(* evaluated or erased later in the walk.                                  *)
(***************************************************************************)
IllFormedFailureAt(i) ==
  /\ log[i].ev = "fail" /\ log[i].name = "check"
  /\ \E d \in Range(diags) : d.op = log[i].op /\ d.kind = "rule"

C4_WalkStopsAtIllFormed ==
  enable_shape_assertions =>
    \A i \in LogIdx : \A j \in LogIdx :
      (i < j /\ IllFormedFailureAt(i)) =>
        log[j].ev \notin {"visit", "rule", "readType", "matchInts", "format", "erase"}

(***************************************************************************)
(* C4 (amended): with assertions enabled, a marker that fails the          *)
(* well-formedness check gets the diagnostic of the check, the pass is     *)
(* marked as failed, and that marker is neither evaluated nor erased; the  *)
(* walk is not interrupted: when it ends, every marker of the function has *)
(* been visited, those after the ill-formed one included.                  *)
(***************************************************************************)
C4_IllFormedFailsWalkContinues ==
  enable_shape_assertions =>
    /\ \A m \in InputMarkers :
         (Visited(m.id) /\ ~WellFormed(m)) =>
           /\ Len(DiagsOf(m.id)) = 1 /\ DiagsOf(m.id)[1].kind = "rule"
           /\ MarkedFailed(m.parent)
           /\ Present(m.id)
           /\ EventsOf(m.id, {"matchInts", "format", "erase"}) = <<>>
    /\ \A f \in 1..nfuncs :
         WalkFinished(f) => \A m \in InputMarkers : m.parent = f => Visited(m.id)

C4_Witness ==
  /\ enable_shape_assertions /\ pc = "check" /\ todo = <<>>
  /\ \E i \in LogIdx : \E j \in LogIdx :
       /\ i < j /\ IllFormedFailureAt(i)
       /\ log[j].ev = "erase" /\ log[j].op # log[i].op

(***************************************************************************)
(* C5: with assertions enabled, a well-formed marker whose predicate is    *)
(* the constant zero and whose message inputs are all constants stays in   *)
(* its function, carries exactly one diagnostic, whose text is the         *)
(* formatted error message, and the pass is marked as failed.              *)
(***************************************************************************)
C5_ViolatedMarkerKept ==
  enable_shape_assertions =>
    \A m \in InputMarkers :
      (Visited(m.id) /\ WellFormed(m) /\ PredicateIs(m, FALSE)
         /\ AllInputsConstant(m)) =>
        /\ Present(m.id)
        /\ DiagsOf(m.id) =
             <<Diag(m.id, "user", 0,
                    formatErrorMessage(m.errorMessage, errorMessageInputs(m)))>>
        /\ MarkedFailed(m.parent)
        /\ (fi = m.parent => passFailed)
        /\ (m.errorMessage = T0 /\ Len(m.operands) = 2 /\ m.operands[2].val = 3)
             => DiagsOf(m.id)[1].text = <<"a", "3">>

C5_Witness ==
  /\ enable_shape_assertions /\ pc = "done" /\ ~status.ok
  /\ \E m \in InputMarkers :
       /\ Visited(m.id) /\ WellFormed(m) /\ PredicateIs(m, FALSE)
       /\ m.errorMessage = T10 /\ Len(m.operands) = 3 /\ AllInputsConstant(m)
       /\ Present(m.id)
       /\ DiagsOf(m.id)[1].text = <<"1", "2", "3">>

(***************************************************************************)
(* C6: with assertions enabled, a well-formed marker whose predicate is a  *)
(* non-zero constant is erased from its function, gets no diagnostic, and  *)
(* signalPassFailure is not called for it.                                 *)
(***************************************************************************)
C6_SatisfiedMarkerDischarged ==
  enable_shape_assertions =>
    \A m \in InputMarkers :
      (Visited(m.id) /\ WellFormed(m) /\ PredicateIs(m, TRUE)) =>
        /\ ~Present(m.id)
        /\ DiagsOf(m.id) = <<>>
        /\ EventsOf(m.id, {"fail", "format"}) = <<>>
        /\ ((\A x \in InputMarkers : x.parent = m.parent =>
               WellFormed(x) /\ PredicateIs(x, TRUE))
            => ~MarkedFailed(m.parent))

C6_Witness ==
  /\ enable_shape_assertions /\ pc = "check" /\ todo = <<>> /\ ~passFailed
  /\ \E m \in InputMarkers :
       /\ Visited(m.id) /\ WellFormed(m) /\ PredicateIs(m, TRUE)
       /\ Len(m.operands) = 2 /\ ~m.operands[2].const
       /\ ~Present(m.id)

(***************************************************************************)
(* C7 (as claimed): when the audit finds both a dynamic shape and a        *)
(* residual marker, the failure it returns names both conditions.          *)
(***************************************************************************)
AuditRan == pc = "done" /\ Started("audit", 0)

ConditionsNamed(headline) ==
  (IF headline = "Module has dynamic shapes" THEN {"dynamic shapes"} ELSE {})
  \cup (IF headline = "Module has residual shape assertions"
        THEN {"residual shape assertions"} ELSE {})

C7_FailureNamesBothConditions ==
  (AuditRan /\ moduleHasDynamicShapes /\ moduleHasShapeAssertions) =>
    ConditionsNamed(status.headline) = {"dynamic shapes", "residual shape assertions"}

(***************************************************************************)
(* C7 (amended): when the audit finds both a dynamic shape and a residual  *)
(* marker, it returns one failure that is headed by the dynamic-shapes     *)
(* condition alone; the diagnostics it carries are those of both kinds,    *)
(* one for every offending operation.                                      *)
(***************************************************************************)
C7_DynamicShapesHeadline ==
  (AuditRan /\ (\E o \in Range(ops) : hasDynamicShape(o))
            /\ (\E o \in Range(ops) : IsMarker(o))) =>
    /\ status.returned /\ ~status.ok
    /\ status.headline = "Module has dynamic shapes"
    /\ \A o \in Range(ops) :
         /\ hasDynamicShape(o) =>
              Diag(o.id, "has dynamic shapes", 0, <<>>) \in Range(status.diags)
         /\ IsMarker(o) =>
              Diag(o.id, "has residual shape assertions", 0, <<>>) \in Range(status.diags)

C7_Witness ==
  /\ entry = "Audit" /\ AuditRan
  /\ moduleHasDynamicShapes /\ moduleHasShapeAssertions
  /\ \E o \in Range(ops) : \E m \in Range(ops) :
       o.id # m.id /\ hasDynamicShape(o) /\ ~IsMarker(o) /\ IsMarker(m)

(***************************************************************************)
(* C8: the audit walks every operation: an operation gets a 'has dynamic   *)
(* shapes' diagnostic exactly when a result or a region argument of it has *)
(* a non-static type, and a 'has residual shape assertions' diagnostic     *)
(* exactly when it is a marker; each flag is set exactly when a diagnostic *)
(* of its kind was emitted; the audit succeeds exactly when no diagnostic  *)
(* was emitted.                                                            *)
(***************************************************************************)
AuditDiagCount(id, kind) ==
  Cardinality({i \in 1..Len(status.diags) :
                 status.diags[i].op = id /\ status.diags[i].kind = kind})

C8_AuditReportsEveryFinding ==
  AuditRan =>
    /\ \A o \in Range(ops) :
         /\ AuditDiagCount(o.id, "has dynamic shapes")
              = (IF o.dynResults \/ o.dynRegionArgs THEN 1 ELSE 0)
         /\ AuditDiagCount(o.id, "has residual shape assertions")
              = (IF IsMarker(o) THEN 1 ELSE 0)
    /\ \A i \in 1..Len(status.diags) : Present(status.diags[i].op)
    /\ moduleHasDynamicShapes
         = (\E i \in 1..Len(status.diags) : status.diags[i].kind = "has dynamic shapes")
    /\ moduleHasShapeAssertions
         = (\E i \in 1..Len(status.diags) :
              status.diags[i].kind = "has residual shape assertions")
    /\ status.returned
    /\ status.ok = (status.diags = <<>> /\ ~moduleHasDynamicShapes
                      /\ ~moduleHasShapeAssertions)

C8_Witness ==
  /\ AuditRan /\ ~status.ok /\ Len(ops) = 2
  /\ \A o \in Range(ops) : hasDynamicShape(o) /\ ~IsMarker(o)
  /\ ops[1].dynResults /\ ops[2].dynRegionArgs
  /\ Len(status.diags) = 2

(***************************************************************************)
(* C9 (as claimed): whenever Refine starts the audit, the module holds no  *)
(* marker, and the audit does not set its residual-assertion flag.         *)
(***************************************************************************)
C9_NoMarkerReachesAudit ==
  (entry = "Refine" /\ (pc = "audit" \/ AuditRan)) =>
    /\ \A o \in Range(ops) : ~IsMarker(o)
    /\ ~moduleHasShapeAssertions

(***************************************************************************)
(* C9 (amended): whenever Refine starts the audit, no function of the      *)
(* module holds a marker; the markers that sit in the module body outside  *)
(* every function are not visited by the discharge pass, are all still     *)
(* there, and it is for them alone that the audit sets its                 *)
(* residual-assertion flag.                                                *)
(***************************************************************************)
C9_NoMarkerInFunctionsAtAudit ==
  (entry = "Refine" /\ (pc = "audit" \/ AuditRan)) =>
    /\ \A o \in Range(ops) : IsMarker(o) => o.parent = 0
    /\ \A m \in InputMarkers : m.parent = 0 => Present(m.id) /\ ~Visited(m.id)
    /\ moduleHasShapeAssertions => \E m \in InputMarkers : m.parent = 0

C9_Witness ==
  /\ entry = "Refine" /\ AuditRan /\ enable_shape_assertions
  /\ \E m \in InputMarkers : m.parent = 1
  /\ \E m \in InputMarkers : m.parent = 0
  /\ moduleHasShapeAssertions

(***************************************************************************)
(* C10: the well-formedness check reports the lowest-numbered rule the     *)
(* marker violates and nothing else: the marker gets exactly one           *)
(* diagnostic, the rules are evaluated in order up to that rule and none   *)
(* after it, and the predicate is not resolved.  A marker with no operand  *)
(* or with more than five is rejected by rule 1 before the type of any     *)
(* operand is read.                                                        *)
(***************************************************************************)
C10_FirstViolatedRuleOnly ==
  enable_shape_assertions =>
    \A m \in InputMarkers :
      (Visited(m.id) /\ ~WellFormed(m)) =>
        LET first == MinOf(ViolatedRules(m))
        IN  /\ DiagsOf(m.id) = <<Diag(m.id, "rule", first, <<>>)>>
            /\ EventsOf(m.id, {"rule"}) = [r \in 1..first |-> Ev("rule", "", m.id, r)]
            /\ EventsOf(m.id, {"matchInts", "format"}) = <<>>
            /\ (Len(m.operands) = 0 \/ Len(m.operands) >= 6) =>
                 /\ first = 1
                 /\ EventsOf(m.id, {"readType"}) = <<>>

C10_Witness ==
  /\ enable_shape_assertions /\ pc = "done"
  /\ \E m \in InputMarkers :
       /\ Visited(m.id) /\ Len(m.operands) = 6
       /\ {1, 2, 3, 4, 6, 9} \subseteq ViolatedRules(m)
       /\ DiagsOf(m.id) = <<Diag(m.id, "rule", 1, <<>>)>>

(***************************************************************************)
(* Vocabulary of the properties of the message functions                   *)
(***************************************************************************)
(* position p of s opens a placeholder: "{", digits, then "," ":" or "}" *)
PlaceholderAt(s, p) == p \in 1..Len(s) /\ MatchAt(s, p)

(* the index of the placeholder at p, read in decimal (capped at INT_MAX) *)
PlaceholderIndex(s, p) == ParseRadix(s, p + 1, 10, 0)

(* position p of s opens a placeholder of the plain form {i} *)
PlainPlaceholderAt(s, p) == PlaceholderAt(s, p) /\ s[DigitRunEnd(s, p + 1)] = "}"

PlaceholdersBelow(s, n) ==
  \A p \in 1..Len(s) : PlaceholderAt(s, p) => PlaceholderIndex(s, p) < n

(* every opening brace of s opens a plain placeholder *)
PlainTemplate(s) == \A p \in 1..Len(s) : s[p] = "{" => PlainPlaceholderAt(s, p)

(* s from position p on, every placeholder replaced by the decimal         *)
(* rendering of the input it names; a placeholder runs up to its "}"       *)
RECURSIVE Substituted(_, _, _)
Substituted(s, p, inputs) ==
  IF p > Len(s) THEN <<>>
  ELSE IF PlaceholderAt(s, p) /\ FindChar(s, "}", p) # 0
          /\ PlaceholderIndex(s, p) < Len(inputs)
  THEN Dec(inputs[PlaceholderIndex(s, p) + 1])
       \o Substituted(s, FindChar(s, "}", p) + 1, inputs)
  ELSE <<s[p]>> \o Substituted(s, p + 1, inputs)

Formatted(n) == phase = "formatted" /\ Len(msgInputs) = n

(***************************************************************************)
(* C11 as stated: for every template and every list of n <= 4 values whose *)
(* placeholders all have an index below n, formatErrorMessage returns the  *)
(* template with every placeholder replaced by the decimal rendering of    *)
(* the input it names.                                                     *)
(***************************************************************************)
C11_EveryTemplateSubstituted ==
  \A n \in 0..maxErrorMessageInputs :
    Formatted(n) /\ PlaceholdersBelow(msgTemplate, n)
      => formatted = Substituted(msgTemplate, 1, msgInputs)

(***************************************************************************)
(* C11, amended: the same for the templates in which every opening brace   *)
(* opens a plain placeholder {i}, i < n.  The other brace sequences are    *)
(* read by llvm::formatv ("{{" is one brace, "{0:x}" is hexadecimal,       *)
(* "{0,3}" is padded).                                                     *)
(***************************************************************************)
C11_PlainTemplateSubstituted ==
  \A n \in 0..maxErrorMessageInputs :
    Formatted(n) /\ PlaceholdersBelow(msgTemplate, n) /\ PlainTemplate(msgTemplate)
      => formatted = Substituted(msgTemplate, 1, msgInputs)

(* "bad value {0}, expected {1}" with 3 and 7 gave "bad value 3, expected 7" *)
C11_Witness ==
  /\ Formatted(2)
  /\ msgTemplate = TExample
  /\ msgInputs = <<3, 7>>
  /\ formatted = <<"b", "a", "d", " ", "v", "a", "l", "u", "e", " ", "3", ",", " ",
                   "e", "x", "p", "e", "c", "t", "e", "d", " ", "7">>

(***************************************************************************)
(* C12: with more than four values formatErrorMessage substitutes nothing: *)
(* it returns the template as it is.                                       *)
(***************************************************************************)
C12_MoreThanFourValuesRaw ==
  phase = "formatted" /\ Len(msgInputs) > maxErrorMessageInputs
    => formatted = msgTemplate

(* a template with the placeholder {0} came back unchanged for five values *)
C12_Witness ==
  /\ Formatted(maxErrorMessageInputs + 1)
  /\ msgTemplate = <<"a", "{", "0", "}">>
  /\ formatted = msgTemplate

(***************************************************************************)
(* C13: when the template of a marker with n message inputs has a          *)
(* placeholder with an index k >= n, wherever it stands, the validation    *)
(* loop ends by rejecting the marker and formatErrorMessage is not called. *)
(***************************************************************************)
PlaceholderOutOfRange(s, n) ==
  \E p \in 1..Len(s) : PlaceholderAt(s, p) /\ PlaceholderIndex(s, p) >= n

ValidationEnded == phase \in {"accepted", "rejected", "threw", "formatted"}

C13_OutOfRangePlaceholderRejected ==
  \A n \in 0..maxErrorMessageInputs :
    /\ Len(msgInputs) = n
    /\ PlaceholderOutOfRange(msgTemplate, n)
    /\ ValidationEnded
    => phase = "rejected"

(* the same, but for the indices that std::stoi cannot return *)
C13_RejectedUnlessStoiThrows ==
  \A n \in 0..maxErrorMessageInputs :
    /\ Len(msgInputs) = n
    /\ PlaceholderOutOfRange(msgTemplate, n)
    /\ ValidationEnded
    => phase \in {"rejected", "threw"}

(***************************************************************************)
(* C18: the specifier loop of verifyShapeAssertion terminates for every    *)
(* template and every number of inputs.  An iteration either leaves the    *)
(* loop or makes the working copy strictly shorter; every removal takes at *)
(* least the three characters of a specifier off the working copy, so      *)
(* there are at most Len(template) \div 3 removals.  This also holds when  *)
(* a removal makes the text around it form a new specifier.                *)
(***************************************************************************)
C18_LoopTerminates ==
  [][phase = "validate"
       => \/ phase' \in {"accepted", "rejected", "threw"}
          \/ /\ phase' = "validate"
             /\ Len(workingCopy') < Len(workingCopy)
             /\ strips' = strips + 1
             /\ 3 * strips' + Len(workingCopy') <= Len(msgTemplate)]_vars

(* more specifiers were removed than the template had: one of them was     *)
(* formed by a removal, and the loop still ended                           *)
C18_Witness ==
  /\ phase = "accepted"
  /\ strips > Cardinality({p \in 1..Len(msgTemplate) : PlaceholderAt(msgTemplate, p)})

(***************************************************************************)
(* C15: the entry point that takes text parses, refines and serializes in  *)
(* that order.  When the text does not parse it returns "Cannot parse      *)
(* module." and no step of the refinement has run; when the refinement     *)
(* fails it returns the status of the refinement, and nothing was          *)
(* serialized or written; "Cannot serialize module." is returned only      *)
(* after the refinement succeeded.                                         *)
(***************************************************************************)
TextReturned == entry = "RefineText" /\ textStatus.returned

EventAt(ev, name) == {i \in LogIdx : log[i].ev = ev /\ log[i].name = name}

C15_TextEntryStages ==
  /\ TextReturned /\ ~parses
       => /\ textStatus = InvalidArgumentError("Cannot parse module.", <<>>)
          /\ log = <<Ev("start", "parse", 0, 0), Ev("fail", "parse", 0, 0)>>
          /\ ~status.returned
          /\ os = "empty"
  /\ TextReturned /\ status.returned /\ ~status.ok
       => /\ textStatus = status
          /\ EventAt("start", "serialize") = {}
          /\ os = "empty"
  /\ TextReturned /\ textStatus.headline = "Cannot serialize module."
       => /\ status = OkStatus
          /\ EventAt("fail", "serialize") = {Len(log)}
  /\ entry = "RefineText" /\ log # <<>>
       => /\ EventAt("start", "parse") = {1}
          /\ \A i \in EventAt("start", "serialize") :
               \A j \in LogIdx : log[j].ev = "start" => j <= i
  /\ entry = "RefineText" /\ os # "empty" => status = OkStatus

(* the refinement of a parsed module failed in the pass manager and that   *)
(* status was returned with nothing written                                *)
C15_Witness ==
  /\ TextReturned
  /\ parses
  /\ textStatus.headline = "Module shape refinement failed"
  /\ textStatus = status
  /\ os = "empty"

(***************************************************************************)
(* C16: with assertions enabled, a well-formed marker whose predicate is   *)
(* no constant gets the one diagnostic "expects static assert_what         *)
(* (operand #0)", the pass is marked as failed, the marker stays in its    *)
(* function, no message input is resolved and the message is not           *)
(* formatted.                                                              *)
(***************************************************************************)
C16_NonConstantPredicate ==
  enable_shape_assertions =>
    \A m \in InputMarkers :
      (Visited(m.id) /\ WellFormed(m) /\ ~m.operands[1].const) =>
        /\ Present(m.id)
        /\ DiagsOf(m.id) = <<Diag(m.id, "assert_what", 0, <<>>)>>
        /\ MarkedFailed(m.parent)
        /\ (fi = m.parent => passFailed)
        /\ EventsOf(m.id, {"matchInts"}) = <<Ev("matchInts", "", m.id, 0)>>
        /\ EventsOf(m.id, {"format", "erase"}) = <<>>

(* such a marker with a message input was visited and the run has failed *)
C16_Witness ==
  /\ enable_shape_assertions /\ pc = "done" /\ ~status.ok
  /\ \E m \in InputMarkers :
       /\ Visited(m.id) /\ WellFormed(m) /\ ~m.operands[1].const
       /\ Len(m.operands) = 2
       /\ DiagsOf(m.id) = <<Diag(m.id, "assert_what", 0, <<>>)>>

(***************************************************************************)
(* C17: with assertions enabled, the message inputs of a well-formed       *)
(* marker whose predicate is the constant zero are resolved in the order   *)
(* #1, #2, ...; at the first one that is no constant the marker gets the   *)
(* one diagnostic "expects static error_message_input (operand #i)" with   *)
(* the index of that operand, no later operand is resolved, the message is *)
(* not formatted and the pass is marked as failed.                         *)
(***************************************************************************)
FirstNonConstant(m) == MinOf({k \in 1..(Len(m.operands) - 1) : ~m.operands[k + 1].const})

C17_FirstNonConstantInput ==
  enable_shape_assertions =>
    \A m \in InputMarkers :
      (Visited(m.id) /\ WellFormed(m) /\ PredicateIs(m, FALSE)
         /\ ~AllInputsConstant(m)) =>
        /\ Present(m.id)
        /\ DiagsOf(m.id) =
             <<Diag(m.id, "error_message_input", FirstNonConstant(m), <<>>)>>
        /\ EventsOf(m.id, {"matchInts"}) =
             [k \in 1..(FirstNonConstant(m) + 1) |-> Ev("matchInts", "", m.id, k - 1)]
        /\ EventsOf(m.id, {"format", "erase"}) = <<>>
        /\ MarkedFailed(m.parent)
        /\ (fi = m.parent => passFailed)

(* the first of two message inputs that are both no constants was named *)
C17_Witness ==
  /\ enable_shape_assertions /\ pc = "done" /\ ~status.ok
  /\ \E m \in InputMarkers :
       /\ Visited(m.id) /\ WellFormed(m) /\ PredicateIs(m, FALSE)
       /\ Len(m.operands) = 3
       /\ ~m.operands[2].const /\ ~m.operands[3].const
       /\ DiagsOf(m.id) = <<Diag(m.id, "error_message_input", 1, <<>>)>>

(***************************************************************************)
(* C19: CheckShapeAssertionsPass erases a marker only when assertions are  *)
(* disabled or the marker is well-formed and its predicate a non-zero      *)
(* constant; while it runs it erases no operation that is no marker and    *)
(* modifies no operation at all; and with assertions enabled it is marked  *)
(* as failed for a function exactly when a marker it visited is still in   *)
(* that function.                                                          *)
(***************************************************************************)
EraseJustified ==
  \A i \in LogIdx : log[i].ev = "erase" =>
    \E m \in InputMarkers :
      /\ m.id = log[i].op
      /\ ~enable_shape_assertions \/ (WellFormed(m) /\ PredicateIs(m, TRUE))

FailedIffMarkerLeft ==
  enable_shape_assertions =>
    \A f \in 1..nfuncs :
      MarkedFailed(f) <=>
        \E m \in InputMarkers : m.parent = f /\ Visited(m.id) /\ Present(m.id)

C19_ErasesOnlyDischargedMarkers ==
  [][/\ pc = "check" =>
          /\ Range(ops') \subseteq Range(ops)
          /\ \A o \in Range(ops) : ~IsMarker(o) => o \in Range(ops')
     /\ EraseJustified'
     /\ FailedIffMarkerLeft'
     /\ (pc' = "check" /\ enable_shape_assertions') =>
          (passFailed' <=> MarkedFailed(fi)')]_vars

(* the walk of a function is over: one marker it visited was erased, one   *)
(* was left, and the pass is marked as failed                              *)
C19_Witness ==
  /\ enable_shape_assertions
  /\ pc = "check" /\ todo = <<>> /\ passFailed
  /\ \E m \in InputMarkers : m.parent = fi /\ Visited(m.id) /\ ~Present(m.id)
  /\ \E m \in InputMarkers : m.parent = fi /\ Visited(m.id) /\ Present(m.id)

(***************************************************************************)
(* C20: RefinePolymorphicShapes(module, enable) returns OkStatus only when *)
(* the module holds, at that moment, no operation with a result or region  *)
(* argument of a non-static type and no marker; ValidateStaticShapes       *)
(* called on the module as it is then returns OkStatus too.                *)
(***************************************************************************)
C20_SuccessMeansStaticAndMarkerFree ==
  (entry = "Refine" /\ pc = "done" /\ status.ok) =>
    /\ \A o \in Range(ops) : ~hasDynamicShape(o) /\ ~IsMarker(o)
    /\ AuditStatus(\E o \in Range(ops) : hasDynamicShape(o),
                   \E o \in Range(ops) : IsMarker(o), AuditWalk(ops)) = OkStatus
    /\ Started("audit", 0)

(* a module that came with a dynamic shape and a marker was refined *)
C20_Witness ==
  /\ entry = "Refine" /\ pc = "done" /\ status.ok
  /\ enable_shape_assertions
  /\ \E o \in Range(input) : hasDynamicShape(o)
  /\ InputMarkers # {}

====
